---------------------------- MODULE Spec2Model ----------------------------
(***************************************************************************)
(* Draft Synthesizer: three draft slots split into paragraphs, a Final     *)
(* Manuscript assembled from them, the derived reflected set, the          *)
(* dismissed set, the debounced local-storage persistence and the AI       *)
(* gateway.                                                                *)
(*                                                                         *)
(* Text is a sequence of one-character strings.  Ids are tuples that keep  *)
(* the parts the code concatenates into the id string:                     *)
(*   draft-<draftIndex>-<pIdx>-<Date.now()>-<Math.random()>                *)
(*   final-<Date.now()>-<Math.random()>                                    *)
(*   img-<Date.now()>            polished-<idx>-<Date.now()>               *)
(* Date.now() is the variable now, a clock that need not advance between   *)
(* two events.  Math.random() is idealised as a token that never repeats   *)
(* (the counter rnd), and the pair <Date.now()>-<Math.random()> is that    *)
(* one token; ids built without it repeat when the clock stands.           *)
(* A field that is undefined in the code is NoId (ids) or NoIndex          *)
(* (numbers); an undefined array element is Hole, and a render that reads  *)
(* a property of it throws, which unmounts the application.                *)
(***************************************************************************)
EXTENDS Integers, Sequences, FiniteSets, TLC

VARIABLES
    drafts,                 \* useState<ManuscriptDraft[]>
    finalParagraphs,        \* useState<Paragraph[]>
    dismissedParagraphIds,  \* useState<Set<string>>
    reflectedIds,           \* useMemo over finalParagraphs (value of the last render)
    isPolishing,            \* useState(false)
    polishCall,             \* the handlePolish invocation awaiting polishManuscript
    dragData,               \* dataTransfer of the reorder drag in progress
    mounted,                \* FALSE once a render has thrown (React unmounts the tree)
    now,                    \* Date.now()
    rnd,                    \* number of Math.random() tokens drawn so far
    storage,                \* localStorage[STORAGE_KEY]
    timer,                  \* the pending setTimeout of the persistence effect
    saveStatus,             \* useState<'saved' | 'saving'>
    gateway,                \* a geminiService call studied on its own
    importCall,             \* the handleGlobalFileUpload invocation awaiting file.text()
    confirmOpen             \* a window.confirm dialog is up and blocks the page

vars == <<drafts, finalParagraphs, dismissedParagraphIds, reflectedIds,
          isPolishing, polishCall, dragData, mounted, now, rnd,
          storage, timer, saveStatus, gateway, importCall, confirmOpen>>

storeVars == <<drafts, finalParagraphs, dismissedParagraphIds, reflectedIds>>
polishVars == <<isPolishing, polishCall>>
persistVars == <<storage, timer, saveStatus>>

---------------------------------------------------------------------------
(* Bounds of the model. *)

MaxRnd == 3
MaxNow == 1

---------------------------------------------------------------------------
(* Values. *)

NL == "\n"
SP == " "
NoId == <<>>
NoIndex == -1
NoTimer == [pending |-> FALSE]
NoCall == [pending |-> FALSE]
NoImport == [pending |-> FALSE]
NoDrag == [type |-> "none"]
NoBlob == [kind |-> "missing"]
NoText == <<"undefined">>

DraftIndices == 0 .. 2

Para(id, text, sdi, spi, oid) ==
    [id |-> id, text |-> text, sourceDraftIndex |-> sdi,
     sourceParaIndex |-> spi, originalId |-> oid]

\* An undefined element of a Paragraph[], and the null that JSON makes of it:
\* every property read of either throws.
Hole == Para(NoId, NoText, NoIndex, NoIndex, NoId)
NullElement == Para(<<"null">>, NoText, NoIndex, NoIndex, NoId)

\* A store that holds a JS value j that is no array.
Foreign(j) == << [foreign |-> j] >>
IsForeign(store) == Len(store) = 1 /\ DOMAIN store[1] = {"foreign"}

Range(s) == {s[i] : i \in DOMAIN s}

RECURSIVE MapText(_)
MapText(ps) ==
    IF ps = <<>> THEN <<>> ELSE <<Head(ps).text>> \o MapText(Tail(ps))

RECURSIVE Join(_)
Join(texts) ==
    IF texts = <<>> THEN <<>>
    ELSE IF Len(texts) = 1 THEN texts[1]
    ELSE texts[1] \o <<NL, NL>> \o Join(Tail(texts))

---------------------------------------------------------------------------
(* The Splitter: text.split(/\n\s*\n+/).map(trim).filter(p => p !== '') *)

IsSpace(c) == c \in {NL, SP}

RECURSIVE SpaceRunEnd(_, _)
SpaceRunEnd(text, i) ==
    IF i < Len(text) /\ IsSpace(text[i + 1]) THEN SpaceRunEnd(text, i + 1) ELSE i

\* Where the match of /\n\s*\n+/ that starts at i ends; 0 when none starts there.
MatchEnd(text, i) ==
    IF text[i] # NL THEN 0
    ELSE LET e == SpaceRunEnd(text, i)
             nls == {j \in (i + 1) .. e : text[j] = NL}
         IN  IF nls = {} THEN 0 ELSE CHOOSE j \in nls : \A k \in nls : k <= j

RECURSIVE RegexSplit(_)
RegexSplit(text) ==
    LET starts == {i \in 1 .. Len(text) : MatchEnd(text, i) > 0}
    IN  IF starts = {} THEN <<text>>
        ELSE LET i == CHOOSE s \in starts : \A t \in starts : s <= t
                 e == MatchEnd(text, i)
             IN  <<SubSeq(text, 1, i - 1)>> \o RegexSplit(SubSeq(text, e + 1, Len(text)))

RECURSIVE TrimStart(_)
TrimStart(s) ==
    IF s # <<>> /\ IsSpace(Head(s)) THEN TrimStart(Tail(s)) ELSE s

RECURSIVE TrimEnd(_)
TrimEnd(s) ==
    IF s # <<>> /\ IsSpace(s[Len(s)]) THEN TrimEnd(SubSeq(s, 1, Len(s) - 1)) ELSE s

Trim(s) == TrimEnd(TrimStart(s))

RECURSIVE MapTrim(_)
MapTrim(chunks) ==
    IF chunks = <<>> THEN <<>> ELSE <<Trim(Head(chunks))>> \o MapTrim(Tail(chunks))

\* A filter that lets the empty chunks through: C18 does not survive it.
NonEmpty_Any(p) == TRUE

NonEmpty(p) == p # <<>>

SplitChunks(text) == SelectSeq(MapTrim(RegexSplit(text)), NonEmpty)

\* A splitter whose ids come from the slot and the position alone: C17 does
\* not survive it.
parseTextToParagraphs_PositionalIds(text, draftIndex) ==
    LET chunks == SplitChunks(text)
    IN  [pIdx1 \in 1 .. Len(chunks) |->
            LET id == <<"draft", draftIndex, pIdx1 - 1, 0>>
            IN  Para(id, chunks[pIdx1], draftIndex, pIdx1 - 1, id)]

parseTextToParagraphs(text, draftIndex) ==
    LET chunks == SplitChunks(text)
    IN  [pIdx1 \in 1 .. Len(chunks) |->
            LET id == <<"draft", draftIndex, pIdx1 - 1, rnd + pIdx1>>
            IN  Para(id, chunks[pIdx1], draftIndex, pIdx1 - 1, id)]

---------------------------------------------------------------------------
(* Rendering and the persistence effect, which follow every state change. *)

RECURSIVE MapOriginalId(_)
MapOriginalId(ps) ==
    IF ps = <<>> THEN <<>> ELSE <<Head(ps).originalId>> \o MapOriginalId(Tail(ps))

Boolean(id) == id # NoId

\* new Set(finalParagraphs.map(p => p.originalId).filter(Boolean))
ComputeReflected(fp) == Range(SelectSeq(MapOriginalId(fp), Boolean))

\* finalParagraphs.map(p => p.originalId) on a non-array or over an undefined
\* or null element.
RenderThrows(fp) == IsForeign(fp) \/ \E i \in DOMAIN fp : fp[i] \in {Hole, NullElement}

\* drafts.map(...) in the JSX on a non-array.
DraftsRenderThrows(d) == IsForeign(d)

\* A render whose memo does not depend on finalParagraphs: C1 does not survive it.
Render_StaleMemo(fp) ==
    /\ mounted' = ~RenderThrows(fp)
    /\ reflectedIds' = reflectedIds

\* The render after setFinalParagraphs(fp): the memo is recomputed, or throws.
Render(fp) ==
    /\ mounted' = ~RenderThrows(fp)
    /\ reflectedIds' = IF RenderThrows(fp) THEN reflectedIds ELSE ComputeReflected(fp)

Snapshot(d, f, dis) == [drafts |-> d, finalParagraphs |-> f, dismissedParagraphIds |-> dis]

\* An effect without the cleanup: a timer already pending stays, with the state
\* it closed over.  C9 does not survive it.
PersistenceEffect_NoCleanup(d, f, dis) ==
    /\ timer' = IF RenderThrows(f) THEN NoTimer
                ELSE IF timer.pending THEN timer
                ELSE [pending |-> TRUE, state |-> Snapshot(d, f, dis)]
    /\ saveStatus' = IF RenderThrows(f) THEN saveStatus ELSE "saving"
    /\ storage' = storage

\* An effect that shows 'saving' and clears the pending timer but schedules
\* none: C29 does not survive it.
PersistenceEffect_NoTimer(d, f, dis) ==
    /\ timer' = NoTimer
    /\ saveStatus' = IF RenderThrows(f) THEN saveStatus ELSE "saving"
    /\ storage' = storage

\* useEffect(..., [drafts, finalParagraphs, dismissedParagraphIds]): the cleanup
\* clears the pending timer, the effect schedules one that closes over the new state.
PersistenceEffect(d, f, dis) ==
    /\ timer' = IF RenderThrows(f) THEN NoTimer
                ELSE [pending |-> TRUE, state |-> Snapshot(d, f, dis)]
    /\ saveStatus' = IF RenderThrows(f) THEN saveStatus ELSE "saving"
    /\ storage' = storage

\* A draft update that also drops the final entries whose origin is gone from
\* the drafts: C16 does not survive it.
SetDrafts_Cascading(d) ==
    LET ids == UNION {{q.id : q \in Range(d[i].paragraphs)} : i \in DOMAIN d}
        kept == SelectSeq(finalParagraphs,
                          LAMBDA p : p.originalId = NoId \/ p.originalId \in ids)
    IN  /\ drafts' = d
        /\ finalParagraphs' = kept
        /\ Render(kept)
        /\ UNCHANGED dismissedParagraphIds
        /\ PersistenceEffect(d, kept, dismissedParagraphIds)

SetDrafts(d) ==
    /\ drafts' = d
    /\ UNCHANGED <<finalParagraphs, dismissedParagraphIds, reflectedIds, mounted>>
    /\ PersistenceEffect(d, finalParagraphs, dismissedParagraphIds)

SetFinalParagraphs(fp) ==
    /\ finalParagraphs' = fp
    /\ Render(fp)
    /\ UNCHANGED <<drafts, dismissedParagraphIds>>
    /\ PersistenceEffect(drafts, fp, dismissedParagraphIds)

SetDismissedParagraphIds(dis) ==
    /\ dismissedParagraphIds' = dis
    /\ UNCHANGED <<drafts, finalParagraphs, reflectedIds, mounted>>
    /\ PersistenceEffect(drafts, finalParagraphs, dis)

\* A user gesture: the tree is mounted and no drag is in progress.
UserCan == mounted /\ dragData = NoDrag /\ ~confirmOpen

---------------------------------------------------------------------------
(* Inputs. *)

\* What the user types or loads into a draft, and the slots it goes to.
RawTexts == {<<"a">>, <<"a", NL, SP, NL, NL, "b">>}
EditedSlots == {0, 1}
Aliases == {<<"t">>}
EditTexts == {<<"b">>}
ImageTexts == {<<"i">>}

---------------------------------------------------------------------------
(* Array.prototype.splice as the handlers use it. *)

Min(a, b) == IF a < b THEN a ELSE b

\* arr.splice(at, 0, x) for at >= 0: an index past the end appends.
SpliceIn(arr, at, x) ==
    LET a == Min(at, Len(arr))
    IN  SubSeq(arr, 1, a) \o <<x>> \o SubSeq(arr, a + 1, Len(arr))

\* const [removed] = arr.splice(at, 1): past the end nothing is removed and
\* removed is undefined.
SpliceOut(arr, at) ==
    IF at < Len(arr)
    THEN [removed |-> arr[at + 1],
          rest |-> SubSeq(arr, 1, at) \o SubSeq(arr, at + 2, Len(arr))]
    ELSE [removed |-> Hole, rest |-> arr]

---------------------------------------------------------------------------
(* Draft Store. *)

\* The titles are '초안 1', '초안 2', '초안 3' in the source.
InitialDrafts ==
    << [id |-> 1, title |-> <<"Draft 1">>, customTitle |-> <<>>, paragraphs |-> <<>>],
       [id |-> 2, title |-> <<"Draft 2">>, customTitle |-> <<>>, paragraphs |-> <<>>],
       [id |-> 3, title |-> <<"Draft 3">>, customTitle |-> <<>>, paragraphs |-> <<>>] >>

updateDraftContent(prev, idx, text) ==
    [prev EXCEPT ![idx + 1].paragraphs = parseTextToParagraphs(text, idx)]

\* DraftColumn.handleFinishInput (non-blank text only) and handleFileUpload.
UpdateDraftContent(idx, text) ==
    /\ UserCan
    /\ rnd + Len(SplitChunks(text)) <= MaxRnd
    /\ SetDrafts(updateDraftContent(drafts, idx, text))
    /\ rnd' = rnd + Len(SplitChunks(text))
    /\ UNCHANGED <<isPolishing, polishCall, dragData, now, gateway, importCall, confirmOpen>>

updateDraftTitle(prev, idx, newCustomTitle) ==
    [prev EXCEPT ![idx + 1].customTitle = newCustomTitle]

UpdateDraftTitle(idx, newCustomTitle) ==
    /\ UserCan
    /\ SetDrafts(updateDraftTitle(drafts, idx, newCustomTitle))
    /\ UNCHANGED <<isPolishing, polishCall, dragData, now, rnd, gateway, importCall, confirmOpen>>

removeParagraphFromDraft(prev, draftIdx, paraId) ==
    [i \in DOMAIN prev |->
        IF i - 1 = draftIdx
        THEN [prev[i] EXCEPT !.paragraphs = SelectSeq(prev[i].paragraphs, LAMBDA p : p.id # paraId)]
        ELSE prev[i]]

RemoveParagraphFromDraft(draftIdx, paraId) ==
    /\ UserCan
    /\ SetDrafts(removeParagraphFromDraft(drafts, draftIdx, paraId))
    /\ UNCHANGED <<isPolishing, polishCall, dragData, now, rnd, gateway, importCall, confirmOpen>>

toggleDismissParagraph(prev, id) ==
    IF id \in prev THEN prev \ {id} ELSE prev \cup {id}

ToggleDismissParagraph(id) ==
    /\ UserCan
    /\ SetDismissedParagraphIds(toggleDismissParagraph(dismissedParagraphIds, id))
    /\ UNCHANGED <<isPolishing, polishCall, dragData, now, rnd, gateway, importCall, confirmOpen>>

\* The file names a picker can hand over, in the order localeCompare gives
\* them, and the position of a name in that order.
FileNames == <<"a", "b", "c", "d">>
NamePos(name) == CHOOSE k \in DOMAIN FileNames : FileNames[k] = name

File(name, text) == [name |-> name, text |-> text]

\* Array.from(files) left in the order the picker gave.
SortByName_AsGiven(files) == files

\* Array.from(files).sort((a, b) => a.name.localeCompare(b.name))
RECURSIVE SortByName(_)
SortByName(files) ==
    IF files = <<>> THEN <<>>
    ELSE LET m == CHOOSE i \in DOMAIN files :
                      \A j \in DOMAIN files : NamePos(files[i].name) <= NamePos(files[j].name)
         IN  <<files[m]>> \o SortByName(SubSeq(files, 1, m - 1) \o SubSeq(files, m + 1, Len(files)))

\* handleGlobalFileUpload up to its first await: nothing happens for an empty
\* selection; otherwise newDrafts copies the drafts of the render the handler
\* closed over, and the files are sorted.  One import is followed at a time.
HandleGlobalFileUpload(files) ==
    /\ UserCan
    /\ ~importCall.pending
    /\ files # <<>>
    /\ importCall' = [pending |-> TRUE, files |-> files, drafts |-> drafts,
                      newDrafts |-> drafts, sortedFiles |-> SortByName(files), i |-> 0]
    /\ UNCHANGED <<drafts, finalParagraphs, dismissedParagraphIds, reflectedIds, mounted,
                   isPolishing, polishCall, dragData, now, rnd, storage, timer,
                   saveStatus, gateway, confirmOpen>>

\* handleGlobalFileUpload resumed after await file.text(): the i-th sorted file
\* becomes the paragraphs of newDrafts[i]; after the last of the first three
\* files setDrafts(newDrafts) runs in the same task.
GlobalFileUploadResumes ==
    /\ mounted
    /\ importCall.pending
    /\ LET i == importCall.i
           text == importCall.sortedFiles[i + 1].text
           newDrafts == [importCall.newDrafts EXCEPT
                            ![i + 1].paragraphs = parseTextToParagraphs(text, i)]
       IN  /\ rnd + Len(SplitChunks(text)) <= MaxRnd
           /\ rnd' = rnd + Len(SplitChunks(text))
           /\ IF i + 1 < Min(Len(importCall.sortedFiles), 3)
              THEN /\ importCall' = [importCall EXCEPT !.newDrafts = newDrafts, !.i = i + 1]
                   /\ UNCHANGED <<drafts, finalParagraphs, dismissedParagraphIds,
                                  reflectedIds, mounted, storage, timer, saveStatus>>
              ELSE /\ SetDrafts(newDrafts)
                   /\ importCall' = NoImport
    /\ UNCHANGED <<isPolishing, polishCall, dragData, now, gateway, confirmOpen>>

---------------------------------------------------------------------------
(* Final Manuscript Store. *)

FinalId(token) == <<"final", token>>

\* An entry that records its own new id as its origin: C6 does not survive it.
NewPara_OwnOrigin(paragraph, token) ==
    [paragraph EXCEPT !.id = FinalId(token), !.originalId = FinalId(token)]

NewPara(paragraph, token) ==
    [paragraph EXCEPT
        !.id = FinalId(token),
        !.originalId = IF paragraph.originalId # NoId THEN paragraph.originalId
                       ELSE paragraph.id]

\* An insert that ignores atIndex and always puts the entry at the end: C14
\* does not survive it.
addParagraphToFinal_AlwaysPush(prev, paragraph, atIndex, token) ==
    prev \o <<NewPara(paragraph, token)>>

\* atIndex = NoIndex is the omitted argument.
addParagraphToFinal(prev, paragraph, atIndex, token) ==
    IF atIndex # NoIndex
    THEN SpliceIn(prev, atIndex, NewPara(paragraph, token))
    ELSE prev \o <<NewPara(paragraph, token)>>

AddParagraphToFinal(paragraph, atIndex) ==
    /\ rnd < MaxRnd
    /\ SetFinalParagraphs(addParagraphToFinal(finalParagraphs, paragraph, atIndex, rnd + 1))
    /\ rnd' = rnd + 1
    /\ UNCHANGED <<isPolishing, polishCall, dragData, now, gateway, importCall, confirmOpen>>

DraftParagraphs == UNION {Range(drafts[i].paragraphs) : i \in DOMAIN drafts}

\* The paragraph cards that take a click or start a drag: draggable={!isBlind},
\* onClick={() => !isBlind && onAddParagraph(p)}.
Insertable == {p \in DraftParagraphs : p.id \notin dismissedParagraphIds}

\* DraftColumn: click on a paragraph card.
ClickParagraph(p) ==
    /\ UserCan
    /\ AddParagraphToFinal(p, NoIndex)

\* FinalColumn.handleDrop / handleMainDrop with a 'new-paragraph' payload:
\* finalIndex is dropIndex or dropIndex + 1, or paragraphs.length on the column.
DropParagraph(p, atIndex) ==
    /\ UserCan
    /\ finalParagraphs # <<>>
    /\ AddParagraphToFinal(p, atIndex)

\* The empty-manuscript placeholder's onDrop inserts at 0; the event then
\* reaches handleMainDrop, where dropIndicator.index is -1, which inserts at
\* paragraphs.length (0 in that render).
DropParagraphOnPlaceholder(p) ==
    /\ UserCan
    /\ finalParagraphs = <<>>
    /\ rnd + 2 <= MaxRnd
    /\ SetFinalParagraphs(
           addParagraphToFinal(addParagraphToFinal(finalParagraphs, p, 0, rnd + 1),
                               p, Len(finalParagraphs), rnd + 2))
    /\ rnd' = rnd + 2
    /\ UNCHANGED <<isPolishing, polishCall, dragData, now, gateway, importCall, confirmOpen>>

\* FinalColumn.handleImageFiles: reader.onload builds the paragraph and calls
\* onAddNew(newParagraph, atIndex).
ImageParagraph(text) == Para(<<"img", now>>, text, NoIndex, NoIndex, NoId)

InsertImage(text, atIndex) ==
    /\ UserCan
    /\ AddParagraphToFinal(ImageParagraph(text), atIndex)

\* An image file dropped on the empty-manuscript placeholder: its onDrop calls
\* handleImageFiles(files, 0), the event then reaches handleMainDrop, which
\* calls handleImageFiles(files, paragraphs.length); each reader.onload inserts.
DropImageOnPlaceholder(text) ==
    /\ UserCan
    /\ finalParagraphs = <<>>
    /\ rnd + 2 <= MaxRnd
    /\ SetFinalParagraphs(
           addParagraphToFinal(
               addParagraphToFinal(finalParagraphs, ImageParagraph(text), 0, rnd + 1),
               ImageParagraph(text), Len(finalParagraphs), rnd + 2))
    /\ rnd' = rnd + 2
    /\ UNCHANGED <<isPolishing, polishCall, dragData, now, gateway, importCall, confirmOpen>>

\* addAll without the filter on the reflected set: C2 does not survive it.
addAllFromDraft_NoFilter(prev, sourceDraft, reflected, token) ==
    prev \o [k \in 1 .. Len(sourceDraft.paragraphs) |->
                [sourceDraft.paragraphs[k] EXCEPT !.id = FinalId(token + k),
                                                  !.originalId = sourceDraft.paragraphs[k].id]]

addAllFromDraft(prev, sourceDraft, reflected, token) ==
    LET toAdd == SelectSeq(sourceDraft.paragraphs, LAMBDA p : p.id \notin reflected)
        newEntries == [k \in 1 .. Len(toAdd) |->
                          [toAdd[k] EXCEPT !.id = FinalId(token + k),
                                           !.originalId = toAdd[k].id]]
    IN  prev \o newEntries

AddAllFromDraft(draftIdx) ==
    LET next == addAllFromDraft(finalParagraphs, drafts[draftIdx + 1], reflectedIds, rnd)
        used == Len(next) - Len(finalParagraphs)
    IN  /\ UserCan
        /\ rnd + used <= MaxRnd
        /\ SetFinalParagraphs(next)
        /\ rnd' = rnd + used
        /\ UNCHANGED <<isPolishing, polishCall, dragData, now, gateway, importCall, confirmOpen>>

\* A removal that goes by what the draft holds now instead of by the tag:
\* C5 does not survive it.
removeAllFromDraft_ByCurrentContent(prev, draftIdx) ==
    SelectSeq(prev, LAMBDA p :
        p.originalId \notin {q.id : q \in Range(drafts[draftIdx + 1].paragraphs)})

removeAllFromDraft(prev, draftIdx) ==
    SelectSeq(prev, LAMBDA p : p.sourceDraftIndex # draftIdx)

RemoveAllFromDraft(draftIdx) ==
    /\ UserCan
    /\ SetFinalParagraphs(removeAllFromDraft(finalParagraphs, draftIdx))
    /\ UNCHANGED <<isPolishing, polishCall, dragData, now, rnd, gateway, importCall, confirmOpen>>

removeParagraphFromFinal(prev, id) ==
    SelectSeq(prev, LAMBDA p : p.id # id)

RemoveParagraphFromFinal(id) ==
    /\ UserCan
    /\ SetFinalParagraphs(removeParagraphFromFinal(finalParagraphs, id))
    /\ UNCHANGED <<isPolishing, polishCall, dragData, now, rnd, gateway, importCall, confirmOpen>>

\* A text edit that writes the new text into every entry: C21 does not
\* survive it.
updateFinalParagraphText_Everywhere(prev, id, newText) ==
    [i \in DOMAIN prev |-> [prev[i] EXCEPT !.text = newText]]

updateFinalParagraphText(prev, id, newText) ==
    [i \in DOMAIN prev |-> IF prev[i].id = id THEN [prev[i] EXCEPT !.text = newText]
                           ELSE prev[i]]

UpdateFinalParagraphText(id, newText) ==
    /\ UserCan
    /\ SetFinalParagraphs(updateFinalParagraphText(finalParagraphs, id, newText))
    /\ UNCHANGED <<isPolishing, polishCall, dragData, now, rnd, gateway, importCall, confirmOpen>>

\* A move that puts the entry after the hover index: C4 does not survive it.
moveParagraphInFinal_After(prev, dragIndex, hoverIndex) ==
    LET cut == SpliceOut(prev, dragIndex)
    IN  SpliceIn(cut.rest, hoverIndex + 1, cut.removed)

moveParagraphInFinal(prev, dragIndex, hoverIndex) ==
    LET cut == SpliceOut(prev, dragIndex)
    IN  SpliceIn(cut.rest, hoverIndex, cut.removed)

\* clearFinal of the build with polish: setFinalParagraphs([]) with no question.
ClearFinalAtOnce ==
    /\ UserCan
    /\ SetFinalParagraphs(<<>>)
    /\ UNCHANGED <<isPolishing, polishCall, dragData, now, rnd, gateway, importCall, confirmOpen>>

\* clearFinal of App.tsx up to window.confirm: the dialog comes up.
ClickClearFinal ==
    /\ UserCan
    /\ confirmOpen' = TRUE
    /\ UNCHANGED <<drafts, finalParagraphs, dismissedParagraphIds, reflectedIds, mounted,
                   isPolishing, polishCall, dragData, now, rnd, storage, timer,
                   saveStatus, gateway, importCall>>

\* window.confirm returns the user's answer and clearFinal goes on.
AnswerClearFinal(confirmed) ==
    /\ mounted
    /\ confirmOpen
    /\ confirmOpen' = FALSE
    /\ IF confirmed
       THEN SetFinalParagraphs(<<>>)
       ELSE UNCHANGED <<drafts, finalParagraphs, dismissedParagraphIds, reflectedIds,
                        mounted, storage, timer, saveStatus>>
    /\ UNCHANGED <<isPolishing, polishCall, dragData, now, rnd, gateway, importCall>>

\* clearFinal of App.tsx from click to answer in one step (the dialog blocks
\* every other event); with confirmed = TRUE it is also the clear of the
\* build with polish.
ClearFinal(confirmed) ==
    /\ UserCan
    /\ IF confirmed
       THEN /\ SetFinalParagraphs(<<>>)
            /\ UNCHANGED <<isPolishing, polishCall, dragData, now, rnd, gateway, importCall, confirmOpen>>
       ELSE UNCHANGED vars

---------------------------------------------------------------------------
(* Reordering by drag and drop (FinalColumn). *)

\* EditableParagraph.handleDragStart: the row's index goes into the payload.
DragStart(index) ==
    /\ UserCan
    /\ index \in 0 .. Len(finalParagraphs) - 1
    /\ dragData' = [type |-> "reorder-paragraph", index |-> index]
    /\ UNCHANGED <<drafts, finalParagraphs, dismissedParagraphIds, reflectedIds,
                   isPolishing, polishCall, mounted, now, rnd, storage, timer,
                   saveStatus, gateway, importCall, confirmOpen>>

FinalIndex(dropIndex, position) ==
    IF position = "bottom" THEN dropIndex + 1 ELSE dropIndex

\* A drop that passes finalIndex on as it is, also when the dragged row comes
\* from above it: C26 does not survive it.
handleDrop_NoShift(prev, sourceIndex, dropIndex, position) ==
    LET finalIndex == FinalIndex(dropIndex, position)
    IN  IF sourceIndex # finalIndex /\ sourceIndex # finalIndex - 1
        THEN moveParagraphInFinal(prev, sourceIndex, finalIndex)
        ELSE prev

\* FinalColumn.handleDrop, the 'reorder-paragraph' branch, on the row dropIndex
\* of the list as it is rendered now.
handleDrop(prev, sourceIndex, dropIndex, position) ==
    LET finalIndex == FinalIndex(dropIndex, position)
    IN  IF sourceIndex # finalIndex /\ sourceIndex # finalIndex - 1
        THEN LET targetIndex == IF sourceIndex < finalIndex THEN finalIndex - 1
                                ELSE finalIndex
             IN  moveParagraphInFinal(prev, sourceIndex, targetIndex)
        ELSE prev

HandleDrop(dropIndex, position) ==
    LET finalIndex == FinalIndex(dropIndex, position)
        sourceIndex == dragData.index
    IN  /\ mounted
        /\ dragData.type = "reorder-paragraph"
        /\ dropIndex \in 0 .. Len(finalParagraphs) - 1
        /\ dragData' = NoDrag
        /\ IF sourceIndex # finalIndex /\ sourceIndex # finalIndex - 1
           THEN SetFinalParagraphs(
                    handleDrop(finalParagraphs, sourceIndex, dropIndex, position))
           ELSE UNCHANGED <<drafts, finalParagraphs, dismissedParagraphIds,
                            reflectedIds, mounted, storage, timer, saveStatus>>
        /\ UNCHANGED <<isPolishing, polishCall, now, rnd, gateway, importCall, confirmOpen>>

\* The drag ends anywhere else.
DragEnd ==
    /\ dragData # NoDrag
    /\ dragData' = NoDrag
    /\ UNCHANGED <<drafts, finalParagraphs, dismissedParagraphIds, reflectedIds,
                   isPolishing, polishCall, mounted, now, rnd, storage, timer,
                   saveStatus, gateway, importCall, confirmOpen>>

---------------------------------------------------------------------------
(* AI Gateway (geminiService) and the polish handler. *)

Responses == {<<>>, <<"b">>}

\* What the SDK does during one call: the constructor returns or throws,
\* generateContent resolves with response.text (a string or undefined) or throws.
GatewayOutcomes ==
    [construct : {"ok", "throws"}, generate : {"ok", "throws"},
     text : Responses \cup {NoText}]

Fulfilled(value) == [settled |-> "fulfilled", value |-> value]
Rejected == [settled |-> "rejected", value |-> NoText]

Falsy(text) == text = <<>> \/ text = NoText

polishManuscript(text, outcome) ==
    IF outcome.construct = "throws" THEN Rejected
    ELSE IF outcome.generate = "throws" THEN Fulfilled(text)
    ELSE Fulfilled(IF Falsy(outcome.text) THEN text ELSE outcome.text)

SynthesisEmpty == <<"no-synthesis">>
SynthesisError == <<"error-occurred">>

suggestSynthesis(draftTexts, outcome) ==
    IF outcome.construct = "throws" THEN Rejected
    ELSE IF outcome.generate = "throws" THEN Fulfilled(SynthesisError)
    ELSE Fulfilled(IF Falsy(outcome.text) THEN SynthesisEmpty ELSE outcome.text)

\* A polish control that stays enabled while a call is outstanding: C11 does
\* not survive it.
HandlePolish_NeverDisabled ==
    /\ UserCan
    /\ finalParagraphs # <<>>
    /\ isPolishing' = TRUE
    /\ polishCall' = [pending |-> TRUE, fullText |-> Join(MapText(finalParagraphs))]
    /\ UNCHANGED <<drafts, finalParagraphs, dismissedParagraphIds, reflectedIds,
                   dragData, mounted, now, rnd, storage, timer, saveStatus, gateway, importCall, confirmOpen>>

\* handlePolish up to its await.
HandlePolish ==
    /\ UserCan
    /\ ~isPolishing
    /\ finalParagraphs # <<>>
    /\ isPolishing' = TRUE
    /\ polishCall' = [pending |-> TRUE, fullText |-> Join(MapText(finalParagraphs))]
    /\ UNCHANGED <<drafts, finalParagraphs, dismissedParagraphIds, reflectedIds,
                   dragData, mounted, now, rnd, storage, timer, saveStatus, gateway, importCall, confirmOpen>>

\* Polished paragraphs that are tagged as coming from the first draft: C30
\* does not survive them.
polishedParagraphs_Tagged(polished) ==
    LET chunks == SplitChunks(polished)
    IN  [idx1 \in 1 .. Len(chunks) |->
            Para(<<"polished", idx1 - 1, now>>, chunks[idx1], 0, idx1 - 1, NoId)]

polishedParagraphs(polished) ==
    LET chunks == SplitChunks(polished)
    IN  [idx1 \in 1 .. Len(chunks) |->
            Para(<<"polished", idx1 - 1, now>>, chunks[idx1], NoIndex, NoIndex, NoId)]

\* A completion that polishes the manuscript as it is when the call returns:
\* C12 does not survive it.
PolishSettles_FromCurrentText(outcome) ==
    LET result == polishManuscript(Join(MapText(finalParagraphs)), outcome)
    IN  /\ mounted
        /\ polishCall.pending
        /\ polishCall' = NoCall
        /\ IF result.settled = "fulfilled"
           THEN /\ SetFinalParagraphs(polishedParagraphs(result.value))
                /\ isPolishing' = FALSE
           ELSE UNCHANGED <<drafts, finalParagraphs, dismissedParagraphIds,
                            reflectedIds, mounted, storage, timer, saveStatus,
                            isPolishing>>
        /\ UNCHANGED <<dragData, now, rnd, gateway, importCall, confirmOpen>>

\* handlePolish after its await: a rejection ends the handler there.
PolishSettles(outcome) ==
    LET result == polishManuscript(polishCall.fullText, outcome)
    IN  /\ mounted
        /\ polishCall.pending
        /\ polishCall' = NoCall
        /\ IF result.settled = "fulfilled"
           THEN /\ SetFinalParagraphs(polishedParagraphs(result.value))
                /\ isPolishing' = FALSE
           ELSE UNCHANGED <<drafts, finalParagraphs, dismissedParagraphIds,
                            reflectedIds, mounted, storage, timer, saveStatus,
                            isPolishing>>
        /\ UNCHANGED <<dragData, now, rnd, gateway, importCall, confirmOpen>>

---------------------------------------------------------------------------
(* Persistence: JSON.stringify / JSON.parse and the state initializers. *)

JNull == [t |-> "null", v |-> <<>>]
JNum(n) == [t |-> "num", v |-> n]
JStr(str) == [t |-> "str", v |-> str]
JArr(items) == [t |-> "arr", v |-> items]
JObj(fields) == [t |-> "obj", v |-> fields]

\* JSON.stringify leaves out the properties whose value is undefined.
ParaKeys(p) ==
    {"id", "text"}
    \cup (IF p.sourceDraftIndex # NoIndex THEN {"sourceDraftIndex"} ELSE {})
    \cup (IF p.sourceParaIndex # NoIndex THEN {"sourceParaIndex"} ELSE {})
    \cup (IF p.originalId # NoId THEN {"originalId"} ELSE {})

ParaJson(p) ==
    IF p = Hole THEN JNull
    ELSE JObj([k \in ParaKeys(p) |->
                 IF k \in {"sourceDraftIndex", "sourceParaIndex"} THEN JNum(p[k])
                 ELSE JStr(p[k])])

ParasJson(ps) == JArr([i \in DOMAIN ps |-> ParaJson(ps[i])])

DraftJson(d) ==
    JObj([id |-> JNum(d.id), title |-> JStr(d.title),
          customTitle |-> JStr(d.customTitle), paragraphs |-> ParasJson(d.paragraphs)])

DraftsJson(ds) == JArr([i \in DOMAIN ds |-> DraftJson(ds[i])])

\* Array.from(set): the members in some order.
RECURSIVE ArrayFrom(_)
ArrayFrom(set) ==
    IF set = {} THEN <<>>
    ELSE LET x == CHOOSE y \in set : TRUE IN <<x>> \o ArrayFrom(set \ {x})

StrsJson(strs) == JArr([i \in DOMAIN strs |-> JStr(strs[i])])

\* The blob without Array.from: JSON.stringify makes {} of a Set.  C7 does not
\* survive it.
Stringify_SetAsObject(state) ==
    [kind |-> "json",
     value |-> JObj([drafts |-> DraftsJson(state.drafts),
                     finalParagraphs |-> ParasJson(state.finalParagraphs),
                     dismissedParagraphIds |-> JObj(<<>>)])]

\* JSON.stringify(stateToSave) in the timer callback.
Stringify(state) ==
    [kind |-> "json",
     value |-> JObj([drafts |-> DraftsJson(state.drafts),
                     finalParagraphs |-> ParasJson(state.finalParagraphs),
                     dismissedParagraphIds |->
                         StrsJson(ArrayFrom(state.dismissedParagraphIds))])]

Has(obj, key) == obj.t = "obj" /\ key \in DOMAIN obj.v
StrOr(obj, key, default) == IF Has(obj, key) THEN obj.v[key].v ELSE default

Truthy(j) ==
    CASE j.t = "null" -> FALSE
      [] j.t = "num" -> j.v # 0
      [] j.t = "str" -> j.v # <<>>
      [] OTHER -> TRUE

ParaOfJson(j) ==
    IF j.t = "null" THEN NullElement
    ELSE Para(StrOr(j, "id", NoId), StrOr(j, "text", NoText),
              StrOr(j, "sourceDraftIndex", NoIndex),
              StrOr(j, "sourceParaIndex", NoIndex), StrOr(j, "originalId", NoId))

ParasOfJson(j) ==
    IF j.t = "arr" THEN [i \in DOMAIN j.v |-> ParaOfJson(j.v[i])] ELSE Foreign(j)

DraftOfJson(j) ==
    [id |-> j.v.id.v, title |-> j.v.title.v, customTitle |-> j.v.customTitle.v,
     paragraphs |-> ParasOfJson(j.v.paragraphs)]

DraftsOfJson(j) ==
    IF j.t = "arr" THEN [i \in DOMAIN j.v |-> DraftOfJson(j.v[i])] ELSE Foreign(j)

\* new Set(x): the elements of an array, the characters of a string; anything
\* else is not iterable.
Iterable(j) == j.t \in {"arr", "str"}
SetOfJson(j) ==
    IF j.t = "arr" THEN {j.v[i].v : i \in DOMAIN j.v} ELSE {<<j.v[i]>> : i \in DOMAIN j.v}

\* localStorage.getItem gives null or a string; `if (saved)` passes a non-empty
\* string, and JSON.parse of it returns a value or throws.
Parses(saved) == saved.kind = "json"

\* parsed.key is read inside the try: on null it throws, on another primitive
\* or an array it is undefined.
Field(saved, key) ==
    IF Parses(saved) /\ Has(saved.value, key) THEN saved.value.v[key] ELSE JNull

InitDrafts(saved) ==
    IF Truthy(Field(saved, "drafts")) THEN DraftsOfJson(Field(saved, "drafts"))
    ELSE InitialDrafts

InitFinalParagraphs(saved) ==
    IF Truthy(Field(saved, "finalParagraphs"))
    THEN ParasOfJson(Field(saved, "finalParagraphs"))
    ELSE <<>>

InitDismissedParagraphIds(saved) ==
    IF Truthy(Field(saved, "dismissedParagraphIds"))
       /\ Iterable(Field(saved, "dismissedParagraphIds"))
    THEN SetOfJson(Field(saved, "dismissedParagraphIds"))
    ELSE {}

\* The first render and the first run of the persistence effect.
Mounts(d, f, dis) ==
    LET throws == DraftsRenderThrows(d) \/ RenderThrows(f)
    IN  /\ mounted = ~throws
        /\ reflectedIds = IF throws THEN {} ELSE ComputeReflected(f)
        /\ timer = IF throws THEN NoTimer
                   ELSE [pending |-> TRUE, state |-> Snapshot(d, f, dis)]
        /\ saveStatus = "saving"

\* A timer callback that reports 'saved' without the setItem: C28 does not
\* survive it.
TimerFires_WithoutWrite ==
    /\ mounted
    /\ timer.pending
    /\ saveStatus' = "saved"
    /\ timer' = NoTimer
    /\ UNCHANGED <<drafts, finalParagraphs, dismissedParagraphIds, reflectedIds, storage,
                   isPolishing, polishCall, dragData, mounted, now, rnd, gateway,
                   importCall, confirmOpen>>

\* The timer callback: setItem, then setSaveStatus('saved').
TimerFires ==
    /\ mounted
    /\ timer.pending
    /\ storage' = Stringify(timer.state)
    /\ saveStatus' = "saved"
    /\ timer' = NoTimer
    /\ UNCHANGED <<drafts, finalParagraphs, dismissedParagraphIds, reflectedIds,
                   isPolishing, polishCall, dragData, mounted, now, rnd, gateway, importCall, confirmOpen>>

\* The page is loaded again: every useState initializer runs on the blob.
Reload ==
    LET d == InitDrafts(storage)
        f == InitFinalParagraphs(storage)
        dis == InitDismissedParagraphIds(storage)
        throws == DraftsRenderThrows(d) \/ RenderThrows(f)
    IN  /\ drafts' = d
        /\ finalParagraphs' = f
        /\ dismissedParagraphIds' = dis
        /\ mounted' = ~throws
        /\ reflectedIds' = IF throws THEN {} ELSE ComputeReflected(f)
        /\ timer' = IF throws THEN NoTimer
                    ELSE [pending |-> TRUE, state |-> Snapshot(d, f, dis)]
        /\ saveStatus' = "saving"
        /\ isPolishing' = FALSE
        /\ polishCall' = NoCall
        /\ dragData' = NoDrag
        /\ importCall' = NoImport
        /\ confirmOpen' = FALSE
        /\ UNCHANGED <<storage, now, rnd, gateway>>

---------------------------------------------------------------------------
(* Time. *)

Tick ==
    /\ now < MaxNow
    /\ now' = now + 1
    /\ UNCHANGED <<drafts, finalParagraphs, dismissedParagraphIds, reflectedIds,
                   isPolishing, polishCall, dragData, mounted, rnd, storage, timer,
                   saveStatus, gateway, importCall, confirmOpen>>

---------------------------------------------------------------------------
(* The application, started with nothing in local storage. *)

NoGateway == [called |-> "none"]

\* The application constructed from the blob in local storage.
Boot(blob) ==
    /\ storage = blob
    /\ drafts = InitDrafts(blob)
    /\ finalParagraphs = InitFinalParagraphs(blob)
    /\ dismissedParagraphIds = InitDismissedParagraphIds(blob)
    /\ Mounts(InitDrafts(blob), InitFinalParagraphs(blob), InitDismissedParagraphIds(blob))
    /\ isPolishing = FALSE
    /\ polishCall = NoCall
    /\ dragData = NoDrag
    /\ now = 0
    /\ rnd = 0
    /\ gateway = NoGateway
    /\ importCall = NoImport
    /\ confirmOpen = FALSE

Init == Boot(NoBlob)

DoUpdateDraftContent == \E idx \in EditedSlots, text \in RawTexts : UpdateDraftContent(idx, text)
DoRemoveParagraphFromDraft ==
    \E idx \in EditedSlots : \E p \in Range(drafts[idx + 1].paragraphs) :
        RemoveParagraphFromDraft(idx, p.id)
DoToggleDismissParagraph == \E p \in DraftParagraphs : ToggleDismissParagraph(p.id)
DoClickParagraph == \E p \in Insertable : ClickParagraph(p)
DoDropParagraph ==
    \E p \in Insertable, atIndex \in 0 .. Len(finalParagraphs) : DropParagraph(p, atIndex)
DoDropParagraphOnPlaceholder == \E p \in Insertable : DropParagraphOnPlaceholder(p)
DoInsertImage ==
    \E text \in ImageTexts, atIndex \in 0 .. Len(finalParagraphs) : InsertImage(text, atIndex)
DoDropImageOnPlaceholder == \E text \in ImageTexts : DropImageOnPlaceholder(text)
DoAddAllFromDraft == \E idx \in EditedSlots : AddAllFromDraft(idx)
DoRemoveAllFromDraft == \E idx \in DraftIndices : RemoveAllFromDraft(idx)
DoRemoveParagraphFromFinal == \E p \in Range(finalParagraphs) : RemoveParagraphFromFinal(p.id)
DoUpdateFinalParagraphText ==
    \E p \in Range(finalParagraphs), t \in EditTexts : UpdateFinalParagraphText(p.id, t)
DoClearFinal == \E confirmed \in BOOLEAN : ClearFinal(confirmed)
DoDragStart == \E index \in 0 .. Len(finalParagraphs) - 1 : DragStart(index)
DoHandleDrop ==
    \E dropIndex \in 0 .. Len(finalParagraphs) - 1, position \in {"top", "bottom"} :
        HandleDrop(dropIndex, position)
DoPolishSettles == \E outcome \in GatewayOutcomes : PolishSettles(outcome)

Next ==
    \/ DoUpdateDraftContent
    \/ DoRemoveParagraphFromDraft
    \/ DoToggleDismissParagraph
    \/ DoClickParagraph
    \/ DoDropParagraph
    \/ DoDropParagraphOnPlaceholder
    \/ DoInsertImage
    \/ DoDropImageOnPlaceholder
    \/ DoAddAllFromDraft
    \/ DoRemoveAllFromDraft
    \/ DoRemoveParagraphFromFinal
    \/ DoUpdateFinalParagraphText
    \/ DoClearFinal
    \/ DoDragStart
    \/ DoHandleDrop
    \/ DragEnd
    \/ HandlePolish
    \/ DoPolishSettles
    \/ Tick

Spec == Init /\ [][Next]_vars

---------------------------------------------------------------------------
(* Properties of the Final Manuscript and the reflected set (Spec). *)

FinalIds(fp) == {fp[i].id : i \in DOMAIN fp}

OriginalIdsInFinal ==
    {finalParagraphs[i].originalId :
        i \in {j \in DOMAIN finalParagraphs : finalParagraphs[j].originalId # NoId}}

\* C1: in every state of the running application, whatever operations led to
\* it, the reflected set is exactly the set of the originalId values of the
\* Final Manuscript entries that have one.
C1_ReflectedSetIsExact == mounted => reflectedIds = OriginalIdsInFinal

\* A manuscript that holds a copied entry next to a polished one, which has no
\* originalId.
C1_Witness ==
    /\ mounted
    /\ reflectedIds # {}
    /\ \E i \in DOMAIN finalParagraphs :
           finalParagraphs[i].originalId = NoId /\ finalParagraphs[i].id[1] = "polished"

\* The reflected set of the render that follows setFinalParagraphs(fp).
ReflectedOf(fp) == {fp[i].originalId : i \in DOMAIN fp} \ {NoId}

\* C2: from every state and for every draft, addAll appends no paragraph whose
\* id is in the reflected set, and a second addAll right after the first
\* leaves the Final Manuscript as the first one made it.
C2_AddAllSkipsReflectedAndIsIdempotent ==
    mounted =>
        \A k \in DraftIndices :
            LET once == addAllFromDraft(finalParagraphs, drafts[k + 1], reflectedIds, rnd)
                used == Len(once) - Len(finalParagraphs)
                twice == addAllFromDraft(once, drafts[k + 1], ReflectedOf(once), rnd + used)
            IN  /\ SubSeq(once, 1, Len(finalParagraphs)) = finalParagraphs
                /\ \A i \in Len(finalParagraphs) + 1 .. Len(once) :
                       once[i].originalId \notin reflectedIds
                /\ twice = once

\* A draft of which addAll skips one paragraph and appends another.
C2_Witness ==
    /\ mounted
    /\ \E k \in DraftIndices :
           /\ \E p \in Range(drafts[k + 1].paragraphs) : p.id \in reflectedIds
           /\ Len(addAllFromDraft(finalParagraphs, drafts[k + 1], reflectedIds, rnd))
                  > Len(finalParagraphs)

\* A polish call has returned and its output has replaced the manuscript.
PolishCompleted == polishCall.pending /\ isPolishing /\ ~isPolishing'

\* C3: no two entries of the Final Manuscript share an id, and the entries a
\* polish completion inserts take no id that an earlier entry held.
C3_IdsUniqueAndNeverReused ==
    [][ /\ mounted' =>
            \A i, j \in DOMAIN finalParagraphs' :
                i # j => finalParagraphs'[i].id # finalParagraphs'[j].id
        /\ PolishCompleted => FinalIds(finalParagraphs') \cap FinalIds(finalParagraphs) = {}
      ]_vars

\* C4: on a manuscript of two or more entries, move(i, j) followed by
\* move(j, i) gives back the original order, for all i and j within the list.
C4_MoveThereAndBack ==
    (mounted /\ Len(finalParagraphs) >= 2) =>
        \A i, j \in 0 .. Len(finalParagraphs) - 1 :
            moveParagraphInFinal(moveParagraphInFinal(finalParagraphs, i, j), j, i)
                = finalParagraphs

\* Three distinct entries, of which a move changes the order.
C4_Witness ==
    /\ mounted
    /\ Len(finalParagraphs) >= 3
    /\ moveParagraphInFinal(finalParagraphs, 0, 2) # finalParagraphs
    /\ moveParagraphInFinal(moveParagraphInFinal(finalParagraphs, 0, 2), 2, 0)
           = finalParagraphs

\* The positions of the entries that are not tagged with draft k.
KeptPositions(fp, k) == {i \in DOMAIN fp : fp[i].sourceDraftIndex # k}
NthKept(fp, k, n) ==
    CHOOSE i \in KeptPositions(fp, k) :
        Cardinality({j \in KeptPositions(fp, k) : j <= i}) = n

\* C5: from every state, also one in which draft k was replaced after entries
\* were copied from it, removeAllFromDraft(k) leaves no entry tagged with k and
\* keeps every other entry, in the order they had.
C5_RemoveAllFromDraftByTag ==
    mounted =>
        \A k \in DraftIndices :
            LET result == removeAllFromDraft(finalParagraphs, k)
            IN  /\ \A i \in DOMAIN result : result[i].sourceDraftIndex # k
                /\ Len(result) = Cardinality(KeptPositions(finalParagraphs, k))
                /\ \A n \in DOMAIN result :
                       result[n] = finalParagraphs[NthKept(finalParagraphs, k, n)]

\* An entry copied from draft k, whose content was replaced since: the draft
\* holds paragraphs, none of them the entry's origin.
C5_Witness ==
    /\ mounted
    /\ \E k \in DraftIndices :
           /\ drafts[k + 1].paragraphs # <<>>
           /\ \E i \in DOMAIN finalParagraphs :
                  /\ finalParagraphs[i].sourceDraftIndex = k
                  /\ finalParagraphs[i].originalId
                         \notin {q.id : q \in Range(drafts[k + 1].paragraphs)}
           /\ removeAllFromDraft(finalParagraphs, k) # finalParagraphs

\* A draft paragraph card is clicked, or dropped into the manuscript.
Appends(p) ==
    \/ ClickParagraph(p)
    \/ \E atIndex \in 0 .. Len(finalParagraphs) : DropParagraph(p, atIndex)

\* C6 as stated: when a draft paragraph p is appended, p's id is in the
\* reflected set right after the append and is not in it before.
C6_AbsentBeforePresentAfter ==
    [][ \A p \in Insertable :
            Appends(p) => (p.id \notin reflectedIds /\ p.id \in reflectedIds') ]_vars

\* C6, amended: when a draft paragraph p is appended, p's id is in the
\* reflected set right after the append; before the append it is in the
\* reflected set exactly when the manuscript already holds a copy of p.
C6_PresentAfterAbsentBeforeUnlessCopied ==
    [][ \A p \in Insertable :
            Appends(p) =>
                /\ p.id \in reflectedIds'
                /\ p.id \in reflectedIds
                       <=> \E i \in DOMAIN finalParagraphs :
                               finalParagraphs[i].originalId = p.id ]_vars

\* The same draft paragraph appended twice: two entries with one origin.
C6_Witness ==
    /\ mounted
    /\ \E i, j \in DOMAIN finalParagraphs :
           /\ i # j
           /\ finalParagraphs[i].originalId = finalParagraphs[j].originalId
           /\ \E p \in DraftParagraphs : p.id = finalParagraphs[i].originalId

---------------------------------------------------------------------------
(* Properties of the polish handler (Spec). *)

\* A polish call is started.
PolishStarts == polishCall'.pending /\ polishCall' # polishCall

\* C11: a polish call is started only while none is outstanding (isPolishing
\* is false, which enables the control) and the Final Manuscript is not
\* empty; and a call is outstanding only while isPolishing is true.
C11_OnePolishInFlight ==
    [][ /\ PolishStarts =>
              (~isPolishing /\ ~polishCall.pending /\ finalParagraphs # <<>>)
        /\ polishCall'.pending => isPolishing' ]_vars

\* A call is outstanding and the manuscript has changed since it started, so
\* a second call would carry another text: the control is disabled.
C11_Witness ==
    /\ mounted
    /\ isPolishing
    /\ polishCall.pending
    /\ finalParagraphs # <<>>
    /\ Join(MapText(finalParagraphs)) # polishCall.fullText

\* The texts polishManuscript can resolve to for the input text.
PolishResults(text) == {text} \cup (Responses \ {<<>>})

\* C12: when an outstanding polish call returns, the Final Manuscript becomes
\* the paragraph split of the returned text, which comes from the text that
\* was captured when the call started, whatever the manuscript holds by then.
C12_PolishResultOverwrites ==
    [][ PolishCompleted =>
            /\ MapText(finalParagraphs') \in
                   {SplitChunks(t) : t \in PolishResults(polishCall.fullText)}
            /\ \A i \in DOMAIN finalParagraphs' :
                   /\ finalParagraphs'[i].id = <<"polished", i - 1, now>>
                   /\ finalParagraphs'[i].originalId = NoId ]_vars

\* A call is outstanding and the manuscript was cleared meanwhile.
C12_Witness ==
    /\ mounted
    /\ polishCall.pending
    /\ finalParagraphs = <<>>

\* Every gateway call settles: the promise polishManuscript returns is
\* fulfilled or rejected in the end.
SpecFair == Init /\ [][Next]_vars /\ WF_vars(DoPolishSettles)

\* C13: whenever isPolishing is true on the running application, it is false
\* again later, whichever way the gateway call ends.
C13_PolishFlagEventuallyClears ==
    (isPolishing /\ mounted) ~> (~isPolishing \/ ~mounted)

---------------------------------------------------------------------------
(* Properties of single inserts (Spec). *)

\* What the insert handlers are given: a draft paragraph, or an image.
Appendable == DraftParagraphs \cup {ImageParagraph(text) : text \in ImageTexts}

\* C14: from every state, append(paragraph, atIndex) with 0 <= atIndex <=
\* length gives a list one longer, whose entries before atIndex are the old
\* ones in place, whose entry at atIndex is new (a fresh id, the paragraph's
\* text) and whose later entries are the old ones shifted by one, each
\* unchanged; without atIndex the new entry comes last.
C14_AppendInsertsOneShiftsRest ==
    mounted =>
        \A p \in Appendable :
            /\ \A atIndex \in 0 .. Len(finalParagraphs) :
                   LET next == addParagraphToFinal(finalParagraphs, p, atIndex, rnd + 1)
                   IN  /\ Len(next) = Len(finalParagraphs) + 1
                       /\ \A i \in 1 .. atIndex : next[i] = finalParagraphs[i]
                       /\ next[atIndex + 1].text = p.text
                       /\ next[atIndex + 1].id \notin FinalIds(finalParagraphs)
                       /\ \A i \in atIndex + 1 .. Len(finalParagraphs) :
                              next[i + 1] = finalParagraphs[i]
            /\ LET next == addParagraphToFinal(finalParagraphs, p, NoIndex, rnd + 1)
               IN  /\ Len(next) = Len(finalParagraphs) + 1
                   /\ SubSeq(next, 1, Len(finalParagraphs)) = finalParagraphs
                   /\ next[Len(next)].text = p.text
                   /\ next[Len(next)].id \notin FinalIds(finalParagraphs)

\* An entry that was inserted between two older ones: its token is younger
\* than both neighbours'.
C14_Witness ==
    /\ mounted
    /\ \E i \in 2 .. Len(finalParagraphs) - 1 :
           /\ \A j \in {i - 1, i, i + 1} : finalParagraphs[j].id[1] = "final"
           /\ finalParagraphs[i].id[2] > finalParagraphs[i - 1].id[2]
           /\ finalParagraphs[i].id[2] > finalParagraphs[i + 1].id[2]

\* C15: every originalId present in the Final Manuscript, and so every member
\* of the reflected set, is an id the Splitter minted for a draft paragraph:
\* an inserted image and a polished paragraph carry none.
C15_OriginalIdOnlyFromDrafts ==
    mounted =>
        /\ \A i \in DOMAIN finalParagraphs :
               finalParagraphs[i].originalId # NoId
                   => finalParagraphs[i].originalId[1] = "draft"
        /\ \A id \in reflectedIds : id[1] = "draft"

---------------------------------------------------------------------------
(* Properties of the Draft Store (Spec). *)

DraftIds(d) == {q.id : q \in Range(d.paragraphs)}

\* C17: when the source text of a draft is replaced, the ids of its new
\* paragraphs are pairwise distinct and none of them is an id the draft held
\* before, also when the text is the same; so right after the replace none of
\* the draft's paragraphs is in the reflected set or in the dismissed set.
C17_ReplaceRegeneratesIds ==
    [][ \A idx \in DraftIndices, text \in RawTexts :
            (drafts' # drafts /\ UpdateDraftContent(idx, text)) =>
                LET new == drafts'[idx + 1].paragraphs
                IN  /\ \A i, j \in DOMAIN new : i # j => new[i].id # new[j].id
                    /\ DraftIds(drafts'[idx + 1]) \cap DraftIds(drafts[idx + 1]) = {}
                    /\ DraftIds(drafts'[idx + 1]) \cap reflectedIds' = {}
                    /\ DraftIds(drafts'[idx + 1]) \cap dismissedParagraphIds' = {}
      ]_vars

\* A draft replaced by the text it had, after one of its paragraphs was copied
\* and another dismissed: the manuscript holds a copy tagged with the slot and
\* the position of a paragraph with the same text, which is not reflected.
C17_Witness ==
    /\ mounted
    /\ \E k \in DOMAIN drafts : \E n \in DOMAIN drafts[k].paragraphs :
           \E i \in DOMAIN finalParagraphs :
               /\ finalParagraphs[i].sourceDraftIndex = k - 1
               /\ finalParagraphs[i].sourceParaIndex = n - 1
               /\ finalParagraphs[i].text = drafts[k].paragraphs[n].text
               /\ finalParagraphs[i].originalId # drafts[k].paragraphs[n].id
               /\ drafts[k].paragraphs[n].id \notin reflectedIds

---------------------------------------------------------------------------
(* The Splitter on composed texts (SpecSplit). *)

\* Chunks (one of them with a single newline inside), the blank-line runs that
\* separate them, and what may come before the first and after the last.
SplitChunkTexts == {<<"a">>, <<"a", NL, "b">>}
SplitSeparators == {<<NL, NL>>, <<NL, SP, NL, NL>>}
SplitPads == {<<>>, <<SP, NL, NL>>}

SplitInputs ==
    UNION {[chunks : [1 .. n -> SplitChunkTexts],
            seps : [1 .. n - 1 -> SplitSeparators],
            lead : SplitPads, trail : SplitPads] : n \in 0 .. MaxRnd}

RECURSIVE Interleave(_, _)
Interleave(chunks, seps) ==
    IF chunks = <<>> THEN <<>>
    ELSE IF Len(chunks) = 1 THEN chunks[1]
    ELSE chunks[1] \o seps[1] \o Interleave(Tail(chunks), Tail(seps))

Compose(in) == in.lead \o Interleave(in.chunks, in.seps) \o in.trail

SplitReplace ==
    \E idx \in DraftIndices, in \in SplitInputs : UpdateDraftContent(idx, Compose(in))

NextSplit == SplitReplace

SpecSplit == Init /\ [][NextSplit]_vars

\* C18: for a text composed of N non-empty chunks separated by blank-line
\* runs (every such text a draft can still take in the state), the Splitter gives N paragraphs, the n-th with the n-th chunk as its
\* text (nothing to strip is left around it), sourceParaIndex n - 1, the given
\* sourceDraftIndex, and its own id as originalId; the ids are pairwise
\* distinct; a text of whitespace alone gives no paragraph.
C18_SplitterGivesTheChunks ==
    \A in \in {x \in SplitInputs : rnd + Len(x.chunks) <= MaxRnd}, idx \in DraftIndices :
        LET ps == parseTextToParagraphs(Compose(in), idx)
        IN  /\ Len(ps) = Len(in.chunks)
            /\ \A n \in DOMAIN ps :
                   /\ ps[n].text = in.chunks[n]
                   /\ ps[n].sourceParaIndex = n - 1
                   /\ ps[n].sourceDraftIndex = idx
                   /\ ps[n].originalId = ps[n].id
            /\ \A m, n \in DOMAIN ps : m # n => ps[m].id # ps[n].id

\* A draft split into three paragraphs, one of them with a newline inside.
C18_Witness ==
    \E k \in DOMAIN drafts :
        /\ Len(drafts[k].paragraphs) = 3
        /\ \E n \in 1 .. 3 : drafts[k].paragraphs[n].text = <<"a", NL, "b">>
        /\ \A n \in 1 .. 3 : drafts[k].paragraphs[n].sourceParaIndex = n - 1

\* The number of copies of the draft paragraph id that the manuscript holds.
Copies(fp, id) == Cardinality({i \in DOMAIN fp : fp[i].originalId = id})

\* C19: while a draft paragraph is dismissed no step adds a copy of it to the
\* Final Manuscript; a change of the dismissed set leaves the Final Manuscript
\* and the reflected set alone, and a change of the Final Manuscript leaves
\* the dismissed set alone.
C19_DismissedIsNeverInserted ==
    [][ /\ \A p \in DraftParagraphs :
               p.id \in dismissedParagraphIds
                   => Copies(finalParagraphs', p.id) <= Copies(finalParagraphs, p.id)
        /\ dismissedParagraphIds' # dismissedParagraphIds
               => (finalParagraphs' = finalParagraphs /\ reflectedIds' = reflectedIds)
        /\ finalParagraphs' # finalParagraphs
               => dismissedParagraphIds' = dismissedParagraphIds ]_vars

---------------------------------------------------------------------------
(* Properties of edits of the Final Manuscript (Spec). *)

\* An id no entry carries: the tokens start at 1.
AbsentId == FinalId(0)

\* C21: for the manuscript of any reachable state, any id and any new text,
\* updateText gives a manuscript of the same length in which the entries with
\* that id have the new text and are otherwise as before, every entry with
\* another id is as before, and the reflected set computed from it is the
\* same; for an id no entry carries the manuscript is as before.
C21_UpdateTextChangesOnlyText ==
    mounted =>
        \A id \in FinalIds(finalParagraphs) \cup {AbsentId}, newText \in EditTexts :
            LET r == updateFinalParagraphText(finalParagraphs, id, newText)
            IN  /\ Len(r) = Len(finalParagraphs)
                /\ \A i \in DOMAIN r :
                       /\ r[i].id = finalParagraphs[i].id
                       /\ r[i].originalId = finalParagraphs[i].originalId
                       /\ r[i].sourceDraftIndex = finalParagraphs[i].sourceDraftIndex
                       /\ r[i].sourceParaIndex = finalParagraphs[i].sourceParaIndex
                       /\ r[i].text = IF finalParagraphs[i].id = id THEN newText
                                      ELSE finalParagraphs[i].text
                /\ ComputeReflected(r) = reflectedIds
                /\ id = AbsentId => r = finalParagraphs

\* A manuscript of two copies of a first paragraph ("a" in its draft), of which
\* one has been rewritten to "b" and the other still reads "a".
C21_Witness ==
    /\ mounted
    /\ \E i, j \in DOMAIN finalParagraphs :
           /\ finalParagraphs[i].originalId = finalParagraphs[j].originalId
           /\ finalParagraphs[i].sourceParaIndex = 0
           /\ finalParagraphs[i].text = <<"b">>
           /\ finalParagraphs[j].text = <<"a">>

\* One drop of a draft paragraph or of an image file on the Final Manuscript
\* column: on a row or on the column when the manuscript has entries, on the
\* placeholder when it has none.
DropGesture ==
    \/ \E p \in Insertable : DropParagraphOnPlaceholder(p)
    \/ \E p \in Insertable, atIndex \in 0 .. Len(finalParagraphs) : DropParagraph(p, atIndex)
    \/ \E text \in ImageTexts : DropImageOnPlaceholder(text)
    \/ \E text \in ImageTexts, atIndex \in 0 .. Len(finalParagraphs) :
           finalParagraphs # <<>> /\ InsertImage(text, atIndex)

\* C24: a drop gesture makes the Final Manuscript longer by exactly one entry.
C24_OneDropOneEntry ==
    [][ (Len(finalParagraphs') # Len(finalParagraphs) + 1 /\ DropGesture) => FALSE ]_vars

\* How many times x occurs in the manuscript fp.
Occurrences(fp, x) == Cardinality({i \in DOMAIN fp : fp[i] = x})

\* A drop of a row that was being dragged changes the manuscript.
ReorderStep ==
    /\ dragData.type = "reorder-paragraph"
    /\ dragData' = NoDrag
    /\ finalParagraphs' # finalParagraphs

\* C25: the manuscript after a reorder is a permutation of the manuscript
\* before it: the same length, every entry as many times as before, and no
\* element that is an undefined hole.
C25_ReorderIsPermutation ==
    [][ ReorderStep =>
            /\ Len(finalParagraphs') = Len(finalParagraphs)
            /\ \A x \in Range(finalParagraphs) \cup Range(finalParagraphs') :
                   Occurrences(finalParagraphs', x) = Occurrences(finalParagraphs, x)
            /\ Hole \notin Range(finalParagraphs') ]_vars

\* The sequence arr without its k-th element.
Without(arr, k) == SubSeq(arr, 1, k - 1) \o SubSeq(arr, k + 1, Len(arr))

\* C26: on the manuscript of any reachable state, for every dragged row and
\* every row and half it is dropped on: if the drop position is the dragged
\* row's own slot or the one after it the manuscript is unchanged; otherwise
\* the dragged entry sits immediately before (top half) or immediately after
\* (bottom half) the entry it was dropped on, and the other entries are in the
\* order they had.
C26_DropPlacesBesideTarget ==
    mounted =>
        \A sourceIndex, dropIndex \in 0 .. Len(finalParagraphs) - 1, position \in {"top", "bottom"} :
            LET r == handleDrop(finalParagraphs, sourceIndex, dropIndex, position)
                finalIndex == FinalIndex(dropIndex, position)
            IN  IF finalIndex = sourceIndex \/ finalIndex = sourceIndex + 1
                THEN r = finalParagraphs
                ELSE /\ Len(r) = Len(finalParagraphs)
                     /\ \E k \in DOMAIN r :
                            /\ r[k] = finalParagraphs[sourceIndex + 1]
                            /\ Without(r, k) = Without(finalParagraphs, sourceIndex + 1)
                            /\ IF position = "top"
                               THEN k < Len(r) /\ r[k + 1] = finalParagraphs[dropIndex + 1]
                               ELSE k > 1 /\ r[k - 1] = finalParagraphs[dropIndex + 1]

\* The two paragraphs of a polish result stand in the reverse of the order
\* they were written in: the second has been dropped above the first, or the
\* first below the second.
C26_Witness ==
    /\ mounted
    /\ Len(finalParagraphs) = 2
    /\ finalParagraphs[1].id[1] = "polished" /\ finalParagraphs[1].id[2] = 1
    /\ finalParagraphs[2].id[1] = "polished" /\ finalParagraphs[2].id[2] = 0

\* C30: on the step on which a polish call completes with a result (the
\* polished text or, fail-soft, the text sent), no entry of the Final
\* Manuscript carries an originalId or a sourceDraftIndex and the reflected
\* set is empty; so for every draft k, removeAllFromDraft(k) would remove
\* nothing and addAll(k) would append a copy of every paragraph of draft k.
C30_PolishForgetsOrigins ==
    [][ PolishCompleted =>
            /\ \A i \in DOMAIN finalParagraphs' :
                   /\ finalParagraphs'[i].originalId = NoId
                   /\ finalParagraphs'[i].sourceDraftIndex = NoIndex
            /\ reflectedIds' = {}
            /\ \A k \in DraftIndices :
                   LET ps == drafts'[k + 1].paragraphs
                       added == addAllFromDraft(finalParagraphs', drafts'[k + 1],
                                                reflectedIds', rnd')
                   IN  /\ removeAllFromDraft(finalParagraphs', k) = finalParagraphs'
                       /\ Len(added) = Len(finalParagraphs') + Len(ps)
                       /\ SubSeq(added, 1, Len(finalParagraphs')) = finalParagraphs'
                       /\ \A n \in DOMAIN ps :
                              added[Len(finalParagraphs') + n].originalId = ps[n].id
      ]_vars

\* The manuscript is a polish result while a draft holds a paragraph of which
\* the manuscript held a copy when the text was sent.
C30_Witness ==
    /\ mounted
    /\ ~polishCall.pending
    /\ finalParagraphs # <<>>
    /\ \A i \in DOMAIN finalParagraphs : finalParagraphs[i].id[1] = "polished"
    /\ \E p \in DraftParagraphs : finalParagraphs[1].text = p.text
    /\ reflectedIds = {}

---------------------------------------------------------------------------
(* Clearing the Final Manuscript: the build with polish (SpecClearAtOnce) and *)
(* App.tsx with its confirmation dialog (SpecClearConfirm), each beside the   *)
(* gestures that fill the manuscript.                                         *)

DoAnswerClearFinal == \E confirmed \in BOOLEAN : AnswerClearFinal(confirmed)

NextClearAtOnce ==
    \/ DoUpdateDraftContent
    \/ DoToggleDismissParagraph
    \/ DoClickParagraph
    \/ DoAddAllFromDraft
    \/ ClearFinalAtOnce

SpecClearAtOnce == Init /\ [][NextClearAtOnce]_vars

NextClearConfirm ==
    \/ DoUpdateDraftContent
    \/ DoToggleDismissParagraph
    \/ DoClickParagraph
    \/ DoAddAllFromDraft
    \/ ClickClearFinal
    \/ DoAnswerClearFinal

SpecClearConfirm == Init /\ [][NextClearConfirm]_vars

\* C22: a step empties a non-empty Final Manuscript only while the
\* confirmation dialog is up, and it then leaves an empty reflected set and
\* the drafts and the dismissed set as they were; a step that closes the
\* dialog leaves the drafts and the dismissed set as they were and the Final
\* Manuscript either as it was (declined) or empty (confirmed).
C22_ClearOnlyAfterConfirmation ==
    [][ /\ (finalParagraphs # <<>> /\ finalParagraphs' = <<>>)
            => /\ confirmOpen
               /\ reflectedIds' = {}
               /\ drafts' = drafts
               /\ dismissedParagraphIds' = dismissedParagraphIds
        /\ (confirmOpen /\ ~confirmOpen')
            => /\ drafts' = drafts
               /\ dismissedParagraphIds' = dismissedParagraphIds
               /\ \/ finalParagraphs' = finalParagraphs /\ reflectedIds' = reflectedIds
                  \/ finalParagraphs' = <<>> /\ reflectedIds' = {} ]_vars

---------------------------------------------------------------------------
(* The global file import (SpecImport): selections of one to four files with  *)
(* distinct names in any order, beside edits of the third slot and of the     *)
(* aliases.                                                                   *)

ImportTexts == {<<"a">>}
ImportEditedSlots == {2}
ImportTitledSlots == {0, 2}

\* The file called name holds its own name as its one paragraph.
ImportFile(name) == File(name, <<name>>)

\* Every selection: one to four files, no name twice, in any order.
ImportSelections ==
    {files \in UNION {[1 .. n -> {ImportFile(FileNames[k]) : k \in DOMAIN FileNames}] : n \in 1 .. 4} :
        \A i, j \in DOMAIN files : files[i] = files[j] => i = j}

ImportHandleGlobalFileUpload == \E files \in ImportSelections : HandleGlobalFileUpload(files)
ImportUpdateDraftContent ==
    \E idx \in ImportEditedSlots, text \in ImportTexts : UpdateDraftContent(idx, text)
ImportUpdateDraftTitle ==
    \E idx \in ImportTitledSlots, t \in Aliases : UpdateDraftTitle(idx, t)

ImportRemoveParagraphFromDraft ==
    \E idx \in ImportEditedSlots : \E p \in Range(drafts[idx + 1].paragraphs) :
        RemoveParagraphFromDraft(idx, p.id)

NextImport ==
    \/ ImportRemoveParagraphFromDraft
    \/ ImportHandleGlobalFileUpload
    \/ GlobalFileUploadResumes
    \/ ImportUpdateDraftContent
    \/ ImportUpdateDraftTitle

SpecImport == Init /\ [][NextImport]_vars

\* The step on which an import writes the drafts.
ImportCompletes == importCall.pending /\ ~importCall'.pending

\* The number of selected files whose name sorts before the name of f.
NameRank(files, f) ==
    Cardinality({k \in DOMAIN files : NamePos(files[k].name) < NamePos(f.name)})

\* C20: when an import completes and the drafts are still those it started
\* from, the selected file with r names before its own (r = 0, 1, 2) has become
\* the paragraphs of slot r + 1, split by the Splitter and labelled with draft
\* index r; a file with three or more names before it is in no slot; a slot
\* with no file keeps its paragraphs; every slot keeps its id, title and alias.
C20_ImportAssignsByFilename ==
    [][ (ImportCompletes /\ importCall.drafts = drafts) =>
            LET files == importCall.files
            IN  /\ Len(drafts') = 3
                /\ \A k \in DOMAIN files :
                       LET r == NameRank(files, files[k])
                       IN  r < 3 =>
                               /\ MapText(drafts'[r + 1].paragraphs) = SplitChunks(files[k].text)
                               /\ \A p \in Range(drafts'[r + 1].paragraphs) :
                                      p.sourceDraftIndex = r
                /\ \A j \in DOMAIN drafts :
                       /\ j > Len(files) => drafts'[j].paragraphs = drafts[j].paragraphs
                       /\ drafts'[j].id = drafts[j].id
                       /\ drafts'[j].title = drafts[j].title
                       /\ drafts'[j].customTitle = drafts[j].customTitle ]_vars

\* An import of the files b and c has ended: they are in the first two slots
\* in name order, the third slot still holds what was typed into it, and the
\* alias of the first slot is in place.
C20_Witness ==
    /\ ~importCall.pending
    /\ MapText(drafts[1].paragraphs) = <<<<"b">>>>
    /\ MapText(drafts[2].paragraphs) = <<<<"c">>>>
    /\ MapText(drafts[3].paragraphs) = <<<<"a">>>>
    /\ drafts[1].customTitle = <<"t">>
    /\ drafts[1].paragraphs[1].sourceDraftIndex = 0

\* C27: the step on which an import writes the drafts changes nothing but the
\* paragraphs of the slots it loads: every alias, and the paragraphs of every
\* slot beyond the files loaded, are after the step what they were just before
\* it, whatever was edited while the files were being read.
C27_ImportKeepsConcurrentEdits ==
    [][ ImportCompletes =>
            \A j \in DOMAIN drafts :
                /\ drafts'[j].customTitle = drafts[j].customTitle
                /\ j > Len(importCall.files) => drafts'[j].paragraphs = drafts[j].paragraphs
      ]_vars

---------------------------------------------------------------------------
(* The build with persistence (App.tsx), on a narrow choice of gestures so   *)
(* that the stored blob and the stores can both vary.                        *)

PersistTexts == {<<"a">>}
PersistSlots == {0, 1}
PersistTitledSlots == {1}

PersistUpdateDraftContent ==
    \E idx \in PersistSlots, text \in PersistTexts : UpdateDraftContent(idx, text)
PersistUpdateDraftTitle ==
    \E idx \in PersistTitledSlots, t \in Aliases : UpdateDraftTitle(idx, t)
PersistRemoveParagraphFromDraft ==
    \E idx \in PersistSlots : \E p \in Range(drafts[idx + 1].paragraphs) :
        RemoveParagraphFromDraft(idx, p.id)
PersistToggleDismissParagraph == \E p \in DraftParagraphs : ToggleDismissParagraph(p.id)
PersistClickParagraph == \E p \in Insertable : ClickParagraph(p)
PersistInsertImage == \E text \in ImageTexts : InsertImage(text, Len(finalParagraphs))
PersistRemoveParagraphFromFinal ==
    \E p \in Range(finalParagraphs) : RemoveParagraphFromFinal(p.id)
PersistClearFinal == \E confirmed \in BOOLEAN : ClearFinal(confirmed)

NextPersist ==
    \/ PersistUpdateDraftContent
    \/ PersistUpdateDraftTitle
    \/ PersistRemoveParagraphFromDraft
    \/ PersistToggleDismissParagraph
    \/ PersistClickParagraph
    \/ PersistInsertImage
    \/ PersistRemoveParagraphFromFinal
    \/ PersistClearFinal
    \/ TimerFires
    \/ Reload

SpecPersist == Init /\ [][NextPersist]_vars

\* A timer that is not cleared fires.
SpecPersistFair == Init /\ [][NextPersist]_vars /\ WF_vars(TimerFires)

---------------------------------------------------------------------------
(* Loading: the application constructed from any blob a browser may hold. *)

SampleParagraph == Para(<<"draft", 0, 0, 1>>, <<"a">>, 0, 0, <<"draft", 0, 0, 1>>)
SampleDrafts == [InitialDrafts EXCEPT ![1].paragraphs = <<SampleParagraph>>]
SampleFinal == <<[SampleParagraph EXCEPT !.id = <<"final", 2>>]>>

\* Values a field of the blob may hold besides a well-formed one.
OddValues ==
    {JNull, JNum(0), JNum(5), JStr(<<>>), JStr(<<"a", "b">>), JArr(<<>>),
     JObj([x |-> JNum(1)])}

FieldValues(key) ==
    OddValues \cup
    (CASE key = "drafts" -> {DraftsJson(SampleDrafts)}
       [] key = "finalParagraphs" -> {ParasJson(SampleFinal)}
       [] OTHER -> {StrsJson(<<SampleParagraph.id>>)})

BlobKeys == {"drafts", "finalParagraphs", "dismissedParagraphIds"}

BlobObjects ==
    UNION {{JObj(f) : f \in [keys -> UNION {FieldValues(k) : k \in keys}]}
           : keys \in SUBSET BlobKeys}

WellKeyed(obj) == \A k \in DOMAIN obj.v : obj.v[k] \in FieldValues(k)

LoadBlobs ==
    {NoBlob, [kind |-> "empty"], [kind |-> "garbage"]}
    \cup {[kind |-> "json", value |-> j] :
            j \in {JNull, JNum(5), JStr(<<"a">>), JArr(<<>>)}
                  \cup {o \in BlobObjects : WellKeyed(o)}}

InitLoad == \E blob \in LoadBlobs : Boot(blob)

NextLoad == TimerFires \/ Reload

SpecLoad == InitLoad /\ [][NextLoad]_vars

---------------------------------------------------------------------------
(* The gateway's two calls on their own. *)

GatewayTexts == {<<>>, <<"a">>, <<"a", NL, NL, "b">>}

CallPolishManuscript(text, outcome) ==
    /\ gateway' = [called |-> "polishManuscript", text |-> text, outcome |-> outcome,
                   result |-> polishManuscript(text, outcome)]
    /\ UNCHANGED <<drafts, finalParagraphs, dismissedParagraphIds, reflectedIds,
                   isPolishing, polishCall, dragData, mounted, now, rnd, storage,
                   timer, saveStatus, importCall, confirmOpen>>

CallSuggestSynthesis(draftTexts, outcome) ==
    /\ gateway' = [called |-> "suggestSynthesis", drafts |-> draftTexts,
                   outcome |-> outcome, result |-> suggestSynthesis(draftTexts, outcome)]
    /\ UNCHANGED <<drafts, finalParagraphs, dismissedParagraphIds, reflectedIds,
                   isPolishing, polishCall, dragData, mounted, now, rnd, storage,
                   timer, saveStatus, importCall, confirmOpen>>

DoCallPolishManuscript ==
    \E text \in GatewayTexts, outcome \in GatewayOutcomes : CallPolishManuscript(text, outcome)
DoCallSuggestSynthesis ==
    \E draftTexts \in [1 .. 3 -> GatewayTexts], outcome \in GatewayOutcomes :
        CallSuggestSynthesis(draftTexts, outcome)

NextGateway == DoCallPolishManuscript \/ DoCallSuggestSynthesis

SpecGateway == Init /\ [][NextGateway]_vars

---------------------------------------------------------------------------
(* Properties of persistence (SpecPersist, SpecLoad). *)

Stores == Snapshot(drafts, finalParagraphs, dismissedParagraphIds)

\* C7: for every state of the running application, the blob serialized from
\* the three stores, read back by the three initializers, gives equal drafts,
\* an equal finalParagraphs sequence and a dismissed set with the same members.
C7_PersistenceRoundTrip ==
    mounted =>
        /\ InitDrafts(Stringify(Stores)) = drafts
        /\ InitFinalParagraphs(Stringify(Stores)) = finalParagraphs
        /\ InitDismissedParagraphIds(Stringify(Stores)) = dismissedParagraphIds

\* The application reloaded from a blob it wrote, none of the stores at its
\* default.
C7_Witness ==
    /\ mounted
    /\ timer.pending
    /\ storage = Stringify(timer.state)
    /\ drafts # InitialDrafts
    /\ finalParagraphs # <<>>
    /\ dismissedParagraphIds # {}

\* C23: while the application is up the Draft Store holds three drafts with
\* the ids 1, 2, 3 in slot order and the titles it is constructed with by
\* default, and every paragraph of slot k (counted from 0) carries
\* sourceDraftIndex = k.
C23_ThreeFixedDrafts ==
    mounted =>
        /\ Len(drafts) = 3
        /\ \A k \in 1 .. 3 :
               /\ drafts[k].id = k
               /\ drafts[k].title = InitialDrafts[k].title
               /\ \A p \in Range(drafts[k].paragraphs) : p.sourceDraftIndex = k - 1

\* A stored field that is absent (or unreadable) or holds something that is
\* no array.
NotAnArray(j) == j.t # "arr"

\* C8: what is loaded from a blob that is missing, unparseable, or whose
\* drafts / finalParagraphs / dismissedParagraphIds field is absent or is no
\* array, is the default for that store, and the application renders.
C8_BadBlobLoadsDefault ==
    /\ mounted
    /\ NotAnArray(Field(storage, "drafts")) => drafts = InitialDrafts
    /\ NotAnArray(Field(storage, "finalParagraphs")) => finalParagraphs = <<>>
    /\ NotAnArray(Field(storage, "dismissedParagraphIds")) => dismissedParagraphIds = {}

\* C9: every change of a store leaves one pending timer, which holds the
\* changed state; and a write to storage writes the state that is current
\* when the timer fires, so a state replaced before the timer fired is never
\* written.
C9_DebouncedWriteIsCurrent ==
    [][ /\ (Stores' # Stores /\ mounted') => (timer'.pending /\ timer'.state = Stores')
        /\ (timer'.pending /\ mounted') => timer'.state = Stores'
        /\ storage' # storage => (storage' = Stringify(Stores) /\ Stores' = Stores)
      ]_vars

\* A blob has been written, a store has changed since, and the write of the
\* new state is pending.
C9_Witness ==
    /\ mounted
    /\ storage.kind = "json"
    /\ timer.pending
    /\ storage # Stringify(timer.state)
    /\ timer.state.finalParagraphs # <<>>

Persisted == saveStatus = "saved" /\ storage = Stringify(Stores)

\* A step that schedules a write: a store has changed or the page was loaded.
Schedules == timer'.pending /\ timer' # timer

DraftOperation(idx) ==
    \/ \E text \in PersistTexts : UpdateDraftContent(idx, text)
    \/ \E t \in Aliases : UpdateDraftTitle(idx, t)
    \/ \E p \in Range(drafts[idx + 1].paragraphs) : RemoveParagraphFromDraft(idx, p.id)

\* C16: a Draft Store operation on one slot leaves the Final Manuscript
\* sequence as it is, entry for entry, also when an entry's originalId names a
\* draft paragraph that is gone, and leaves the other two drafts as they are.
C16_DraftOperationsLeaveFinalAlone ==
    [][ \A idx \in DraftIndices :
            DraftOperation(idx) =>
                /\ finalParagraphs' = finalParagraphs
                /\ reflectedIds' = reflectedIds
                /\ \A other \in DraftIndices \ {idx} :
                       drafts'[other + 1] = drafts[other + 1] ]_vars

\* A final entry whose origin is no longer in any draft, next to a draft that
\* holds paragraphs and a draft that has an alias.
C16_Witness ==
    /\ mounted
    /\ \E i \in DOMAIN finalParagraphs :
           /\ finalParagraphs[i].originalId # NoId
           /\ finalParagraphs[i].originalId[1] = "draft"
           /\ finalParagraphs[i].originalId \notin {q.id : q \in DraftParagraphs}
    /\ DraftParagraphs # {}
    /\ \E k \in DOMAIN drafts : drafts[k].customTitle # <<>>

---------------------------------------------------------------------------
(* Properties of the AI gateway (SpecGateway). *)

Failed(outcome) == outcome.construct = "throws" \/ outcome.generate = "throws"

\* C10: neither gateway call rejects; when the client cannot be constructed or
\* the endpoint fails, polishManuscript resolves to its input text and
\* suggestSynthesis to the fixed failure string.
C10_GatewayFailSoft ==
    gateway.called # "none" =>
        /\ gateway.result.settled = "fulfilled"
        /\ Failed(gateway.outcome) =>
               gateway.result.value =
                   IF gateway.called = "polishManuscript" THEN gateway.text
                   ELSE SynthesisError

=============================================================================
